---- MODULE Spec2Model ----
(***************************************************************************)
(* A model of surveyor.py: one run of main(), from the parsed command line *)
(* to the exit of the process.  Python strings are TLA+ strings; an        *)
(* optional value (None or a value) is the empty or the one-element tuple. *)
(***************************************************************************)
EXTENDS Integers, Sequences, FiniteSets, TLC

\* ------------------------------------------------------------------ bounds

\* The search backend yields at most MaxRecs records for one query.
MaxRecs == 2
\* --days ranges over 0..MaxDays, --minutes over 0..MaxMinutes (and one day).
MaxDays == 2
MaxMinutes == 2
\* At most MaxSigints interrupts are delivered to one run.
MaxSigints == 1

\* ------------------------------------------------------- program constants

\* args.days*1440: the minutes of a day.
MinutesPerDay == 1440

\* ------------------------------------------------------- optional values

None == <<>>
Some(v) == <<v>>

\* Python truthiness of an optional int / an optional str.
TruthyInt(o) == o # None /\ o[1] # 0
TruthyStr(o) == o # None /\ o[1] # ""

\* ---------------------------------------------------------------- strings

Char(s, i) == SubSeq(s, i, i)

\* A string of this module holds characters below U+0100 (Latin-1).  Among
\* them, the ones str.lower() changes, and what it changes each into.
UpperCase == "ABCDEFGHIJKLMNOPQRSTUVWXYZÀÁÂÃÄÅÆÇÈÉÊËÌÍÎÏÐÑÒÓÔÕÖØÙÚÛÜÝÞ"
LowerCase == "abcdefghijklmnopqrstuvwxyzàáâãäåæçèéêëìíîïðñòóôõöøùúûüýþ"

\* UpperCase and LowerCase as a mapping.
LowerMap ==
  [c \in { Char(UpperCase, k) : k \in 1..Len(UpperCase) } |->
     Char(LowerCase, CHOOSE k \in 1..Len(UpperCase) : Char(UpperCase, k) = c)]
Digits == "0123456789"

\* str.lower() of one character.
LowerChar(c) == IF c \in DOMAIN LowerMap THEN LowerMap[c] ELSE c

RECURSIVE Lower(_)
\* str.lower()
Lower(s) == IF s = "" THEN "" ELSE LowerChar(Char(s, 1)) \o Lower(SubSeq(s, 2, Len(s)))

\* Python's `needle in hay` on strings.
Contains(needle, hay) ==
  \E i \in 1..(Len(hay) - Len(needle) + 1) : SubSeq(hay, i, i + Len(needle) - 1) = needle

\* The characters below U+0100 that str.isspace() holds of: what
\* str.strip() removes.  After the four escapes: U+000B, U+001C to U+001F,
\* the space, U+0085 and U+00A0.
WhiteSpace == "\t\n\r\f  "

IsSpace(c) == \E k \in 1..Len(WhiteSpace) : Char(WhiteSpace, k) = c

RECURSIVE LStrip(_)
LStrip(s) == IF s # "" /\ IsSpace(Char(s, 1)) THEN LStrip(SubSeq(s, 2, Len(s))) ELSE s

RECURSIVE RStrip(_)
RStrip(s) == IF s # "" /\ IsSpace(Char(s, Len(s))) THEN RStrip(SubSeq(s, 1, Len(s) - 1)) ELSE s

\* str.strip()
Strip(s) == RStrip(LStrip(s))

\* str.endswith()
EndsWith(s, suffix) ==
  Len(s) >= Len(suffix) /\ SubSeq(s, Len(s) - Len(suffix) + 1, Len(s)) = suffix

RECURSIVE NatToStr(_)
NatToStr(n) ==
  IF n < 10 THEN Char(Digits, n + 1)
  ELSE NatToStr(n \div 10) \o Char(Digits, (n % 10) + 1)

\* '%d' % n
IntToStr(n) == IF n < 0 THEN "-" \o NatToStr(0 - n) ELSE NatToStr(n)

RECURSIVE Join(_, _)
\* sep.join(parts)
Join(sep, parts) ==
  IF parts = <<>> THEN ""
  ELSE IF Len(parts) = 1 THEN parts[1]
  ELSE parts[1] \o sep \o Join(sep, Tail(parts))

RECURSIVE UniversalNewlines(_)
\* What a file opened in text mode hands to its reader: "\r\n" and a lone
\* "\r" both read as "\n".
UniversalNewlines(text) ==
  IF text = "" THEN ""
  ELSE IF Char(text, 1) = "\r"
  THEN IF Len(text) >= 2 /\ Char(text, 2) = "\n"
       THEN "\n" \o UniversalNewlines(SubSeq(text, 3, Len(text)))
       ELSE "\n" \o UniversalNewlines(SubSeq(text, 2, Len(text)))
  ELSE Char(text, 1) \o UniversalNewlines(SubSeq(text, 2, Len(text)))

RECURSIVE SplitLines(_)
\* The lines of a text, each with its "\n" when it has one.
SplitLines(text) ==
  IF text = "" THEN <<>>
  ELSE IF \E i \in 1..Len(text) : Char(text, i) = "\n"
  THEN LET i == CHOOSE i \in 1..Len(text) :
                  Char(text, i) = "\n" /\ \A j \in 1..(i - 1) : Char(text, j) # "\n"
       IN  <<SubSeq(text, 1, i)>> \o SplitLines(SubSeq(text, i + 1, Len(text)))
  ELSE <<text>>

\* open(path).readlines() of a file holding text.
ReadLines(text) == SplitLines(UniversalNewlines(text))

\* The index of the last occurrence of character c in s, 0 when there is none.
LastIndex(s, c) ==
  IF \E i \in 1..Len(s) : Char(s, i) = c
  THEN CHOOSE i \in 1..Len(s) : Char(s, i) = c /\ \A j \in (i + 1)..Len(s) : Char(s, j) # c
  ELSE 0

\* os.path.basename()
basename(path) == SubSeq(path, LastIndex(path, "/") + 1, Len(path))

\* os.path.splitext(name)[0] of a name without directory part: the extension
\* starts at the last dot, unless only dots precede it.
splitext0(name) ==
  LET d == LastIndex(name, ".")
  IN  IF d > 0 /\ \E j \in 1..(d - 1) : Char(name, j) # "."
      THEN SubSeq(name, 1, d - 1)
      ELSE name

\* os.path.join(root, filename)
pathjoin(root, filename) ==
  IF root = "" \/ EndsWith(root, "/") THEN root \o filename ELSE root \o "/" \o filename

\* ------------------------------------------------------------------ inputs

\* The namespace argparse returns (lines 106-142).  Exactly one of deffile,
\* defdir, query, iocfile is given (the required mutually exclusive group).
\* time_last records which of --days / --minutes came last on the command
\* line; argparse keeps no such order and main() never reads it.
NoArgs ==
  [cbc |-> FALSE, translate |-> FALSE, days |-> None, minutes |-> None,
   time_last |-> "days", deffile |-> None, defdir |-> None, query |-> None,
   iocfile |-> None, ioctype |-> None, hostname |-> None, username |-> None]

\* The backend and translation switches.
Backends ==
  { [cbc |-> c, translate |-> t] : c \in BOOLEAN, t \in BOOLEAN }

WithBackend(a, b) == [a EXCEPT !.cbc = b.cbc, !.translate = b.translate]

\* Definition documents as json.load returns them: an ordered mapping
\* program -> (field -> terms), or a text that is no JSON.
BrowsersDoc ==
  [valid |-> TRUE,
   programs |-> << [name |-> "chrome",
                    criteria |-> << [field |-> "process_name",
                                     terms |-> <<"chrome.exe">>] >>] >>]

ToolsDoc ==
  [valid |-> TRUE,
   programs |-> << [name |-> "psexec",
                    criteria |-> << [field |-> "process_name",
                                     terms |-> <<"psexec.exe", "psexesvc.exe">>],
                                    [field |-> "cmdline",
                                     terms |-> <<"-accepteula">>] >>],
                   [name |-> "nc",
                    criteria |-> << [field |-> "md5", terms |-> <<>>] >>] >>]

BadDoc == [valid |-> FALSE, programs |-> <<>>]

\* The permutations of a finite set, as sequences.
Perms(S) ==
  { p \in [1..Cardinality(S) -> S] : \A x \in S : \E i \in DOMAIN p : p[i] = x }

\* The directory tree under defs: the files of each subdirectory.
DefsTree ==
  [d \in {"a", "b"} |->
     IF d = "a" THEN {"browsers.json", "notes.txt"} ELSE {"browsers.json"}]

\* The (root, filename) pairs of one directory, its files in the order given.
Listed(root, files) == [i \in 1..Len(files) |-> <<root, files[i]>>]

\* What os.walk("defs") may list: defs itself holds no file, then each
\* subdirectory in the order os.scandir names them, the files of each in the
\* order os.scandir names them.  The file system decides both orders.
WalkListings ==
  { Listed("defs/" \o ds[1], fo[ds[1]]) \o Listed("defs/" \o ds[2], fo[ds[2]]) :
      ds \in Perms(DOMAIN DefsTree),
      fo \in { f \in [DOMAIN DefsTree -> UNION { Perms(DefsTree[d]) : d \in DOMAIN DefsTree }] :
                 \A d \in DOMAIN DefsTree : f[d] \in Perms(DefsTree[d]) } }

DefaultListing ==
  << <<"defs/a", "browsers.json">>,
     <<"defs/a", "notes.txt">>,
     <<"defs/b", "browsers.json">> >>

\* The file system the run sees: the paths that exist, what os.walk lists
\* under each directory (root, filename), the parsed definition documents
\* and the text of the indicator file.
FileSystem(ioc_text, listing) ==
  [exists |-> {"browsers.json", "tools.json", "bad.json", "defs", "iocs.txt"},
   walk |-> [d \in {"defs"} |-> listing],
   docs |-> [p \in {"browsers.json", "defs/a/browsers.json", "defs/b/browsers.json",
                    "tools.json", "bad.json"} |->
               IF p = "tools.json" THEN ToolsDoc
               ELSE IF p = "bad.json" THEN BadDoc
               ELSE BrowsersDoc],
   ioc_text |-> ioc_text]

IocTexts ==
  {"", "1.2.3.4\n5.6.7.8", "1.2.3.4\n1.2.3.4\n", "1.2.3.4\n\n5.6.7.8\n", " 1.2.3.4\f\r5.6.7.8\r\n"}

\* The process documents the backend may yield.  A field the document lacks
\* is None.
RawRecords ==
  { [host |-> Some("PCÉ"), user |-> Some("Bob"), path |-> Some("c:\\a.exe"), cmdline |-> Some("a.exe -x")],
    [host |-> Some("pcé"), user |-> Some("bob"), path |-> Some("c:\\a.exe"), cmdline |-> Some("a.exe -x")],
    [host |-> None, user |-> Some("eve"), path |-> Some("c:\\b.exe"), cmdline |-> Some("b.exe")] }

\* --days: small counts, one that reaches back to the year 931 and one that
\* reaches back before the year 1.
DayValues == {None} \cup { Some(d) : d \in 0..MaxDays } \cup {Some(400000), Some(740000)}
MinuteValues == {None} \cup { Some(m) : m \in 0..MaxMinutes } \cup {Some(MinutesPerDay)}

\* ------------------------------------------------------------------- state

VARIABLES
  args, fs,                     \* the inputs of the run
  now,                          \* what datetime.now() returns (line 158 / 162)
  pc, exit_code, uncaught,      \* where main() is, the exit status (-1 while
                                \* running), the exception propagating ("" none)
  query_base, definition_files, \* main()'s locals
  data, programs, idx, result_set, to_write,
  query, results, yielded,      \* process_search's locals
  nested,                       \* nested_process_search's results
  opens, closes, rows,          \* the output file: open() and close() calls, rows
  searches,                     \* the query texts handed to select().where()
  calls,                        \* the process_search invocations
  reported,                     \* the "--> name: N results" lines of stdout
  skip_logged, caught_logged,   \* the "Can't convert" / "Caught CTRL-C" lines
  sigints                       \* interrupts delivered so far

inputs == <<args, fs, now>>
control == <<pc, exit_code, uncaught>>
main_locals == <<query_base, definition_files, data, programs, idx, result_set, to_write>>
search_locals == <<query, results, yielded, nested>>
outfile == <<opens, closes, rows>>
observed == <<searches, calls, reported, skip_logged, caught_logged>>
vars == <<inputs, control, main_locals, search_locals, outfile, observed, sigints>>

\* ------------------------------------------------- building the base query

\* A datetime: the days since 1970-01-01, the minute of the day, the second
\* and the microsecond.  The clock may read:
\* 2026-10-29T18:14:07.123456, or 2024-03-01T00:00:59.000005.
Clocks ==
  { [day |-> 20755, minute |-> 1094, second |-> 7, microsecond |-> 123456],
    [day |-> 19783, minute |-> 0, second |-> 59, microsecond |-> 5] }

DefaultClock == CHOOSE c \in Clocks : c.second = 7

\* date.min (0001-01-01) and date.max (9999-12-31), in days since 1970-01-01.
MinDay == 0 - 719162
MaxDay == 2932896

\* The value is one a datetime can hold; arithmetic whose result is not
\* raises OverflowError.
InRange(t) == t.day >= MinDay /\ t.day <= MaxDay

\* datetime - timedelta(days=d)
MinusDays(t, d) == [t EXCEPT !.day = t.day - d]

\* datetime - timedelta(minutes=m)
MinusMinutes(t, m) ==
  LET total == t.minute - m
  IN  [t EXCEPT !.day = t.day + total \div MinutesPerDay,
                !.minute = total % MinutesPerDay]

\* '%0<width>d' % n, for n >= 0
Pad(n, width) ==
  LET digits == NatToStr(n)
  IN  SubSeq("000000", 1, width - Len(digits)) \o digits

\* The proleptic Gregorian date of the day that is `days` days after
\* 1970-01-01, as datetime keeps it.
CivilFromDays(days) ==
  LET z == days + 719468
      era == z \div 146097
      doe == z - era * 146097
      yoe == (doe - doe \div 1460 + doe \div 36524 - doe \div 146096) \div 365
      doy == doe - (365 * yoe + yoe \div 4 - yoe \div 100)
      mp == (5 * doy + 2) \div 153
      d == doy - (153 * mp + 2) \div 5 + 1
      m == IF mp < 10 THEN mp + 3 ELSE mp - 9
      y == yoe + era * 400 + (IF m <= 2 THEN 1 ELSE 0)
  IN  [year |-> y, month |-> m, day |-> d]

\* datetime.strftime('%Y-%m-%dT%H:%M:%S.%fZ') of a datetime in range.  The C
\* library's %Y writes the year without padding: 931, not 0931.
strftime(t) ==
  LET date == CivilFromDays(t.day)
  IN  NatToStr(date.year) \o "-" \o Pad(date.month, 2) \o "-" \o Pad(date.day, 2)
        \o "T" \o Pad(t.minute \div 60, 2) \o ":" \o Pad(t.minute % 60, 2)
        \o ":" \o Pad(t.second, 2) \o "." \o Pad(t.microsecond, 6) \o "Z"

\* Lines 153-155 and 165-167: the backend's field names.
host_key(a) == IF a.cbc THEN "device_name" ELSE "hostname"
user_key(a) == IF a.cbc THEN "process_username" ELSE "username"

\* The clause lines 157-160 / 169-170 build from --days.
DaysClause(a) ==
  IF a.cbc
  THEN " process_start_time:[" \o strftime(MinusDays(now, a.days[1])) \o " TO *]"
  ELSE " start:-" \o IntToStr(a.days[1] * MinutesPerDay) \o "m"

\* The clause lines 161-164 / 171-172 build from --minutes.
MinutesClause(a) ==
  IF a.cbc
  THEN " process_start_time:[" \o strftime(MinusMinutes(now, a.minutes[1])) \o " TO *]"
  ELSE " start:-" \o IntToStr(a.minutes[1]) \o "m"

\* TimeWindow with the two tests in the other order: --minutes first.
TimeWindow_minutes_first(a) ==
  IF TruthyInt(a.minutes) THEN MinutesClause(a)
  ELSE IF TruthyInt(a.days) THEN DaysClause(a)
  ELSE ""

\* Lines 157-164 and 169-172: `if args.days: ... elif args.minutes: ...`.
TimeWindow(a) ==
  IF TruthyInt(a.days) THEN DaysClause(a)
  ELSE IF TruthyInt(a.minutes) THEN MinutesClause(a)
  ELSE ""

\* Lines 174-177 and 178-181: the host and user constraints.
HostClause(a) ==
  IF TruthyStr(a.hostname) THEN " " \o host_key(a) \o ":" \o a.hostname[1] ELSE ""
UserClause(a) ==
  IF TruthyStr(a.username) THEN " " \o user_key(a) \o ":" \o a.username[1] ELSE ""

\* HostConflict testing the on-premises field name on either backend.
HostConflict_onprem_key(a) ==
  TruthyStr(a.hostname) /\ TruthyStr(a.query) /\ Contains("hostname", a.query[1])

\* Lines 175 and 179: the filter's field already appears in the raw query.
HostConflict(a) ==
  TruthyStr(a.hostname) /\ TruthyStr(a.query) /\ Contains(host_key(a), a.query[1])
UserConflict(a) ==
  TruthyStr(a.username) /\ TruthyStr(a.query) /\ Contains(user_key(a), a.query[1])

\* Lines 144-145: --iocfile without --ioctype, parser.error().
MissingIocType(a) == a.iocfile # None /\ a.ioctype = None

\* Lines 158 and 162: on the cloud backend the start of the window is a
\* datetime; when it falls outside the years 1 to 9999 the subtraction raises
\* OverflowError.
TimeOverflow(a) ==
  /\ a.cbc
  /\ IF TruthyInt(a.days) THEN ~InRange(MinusDays(now, a.days[1]))
     ELSE IF TruthyInt(a.minutes) THEN ~InRange(MinusMinutes(now, a.minutes[1]))
     ELSE FALSE

\* Lines 176 and 180: the filter checks in which parser.error() ends the run.
ArgError(a) ==
  \/ HostConflict(a)
  \/ UserConflict(a)

\* Lines 152-181: query_base when validation passes.
BaseQuery(a) == TimeWindow(a) \o HostClause(a) \o UserClause(a)

\* Lines 205, 217, 235: the branch main() takes after opening the output.
Mode(a) ==
  IF TruthyStr(a.query) THEN "query"
  ELSE IF TruthyStr(a.iocfile) THEN "ioc"
  ELSE "def"

\* Lines 193-196: the .json files os.walk lists, joined to their directory.
WalkJson(f, dir) ==
  LET listing == f.walk[dir]
      keep == SelectSeq(listing, LAMBDA e : EndsWith(e[2], ".json"))
  IN  [i \in 1..Len(keep) |-> pathjoin(keep[i][1], keep[i][2])]

\* Lines 185 and 190: the selected definition path does not exist.
PathMissing(a, f) ==
  IF TruthyStr(a.deffile) THEN a.deffile[1] \notin f.exists
  ELSE IF TruthyStr(a.defdir) THEN a.defdir[1] \notin f.exists
  ELSE FALSE

\* Lines 183-196: definition_files when the path checks pass.
DefinitionFiles(a, f) ==
  IF TruthyStr(a.deffile) THEN <<a.deffile[1]>>
  ELSE IF TruthyStr(a.defdir) THEN WalkJson(f, a.defdir[1])
  ELSE <<>>

\* ----------------------------------------------------------- initial states

QueryTexts ==
  {"", "cmdline:x", "hostname:h1 cmdline:x", "process_username:bob", "device_name:h1"}

QueryArgs ==
  { [NoArgs EXCEPT !.query = Some(q), !.hostname = h, !.username = u,
                   !.days = t[1], !.minutes = t[2]] :
      q \in QueryTexts, h \in {None, Some(""), Some("h1")},
      u \in {None, Some("bob")},
      t \in {<<None, None>>, <<Some(1), Some(2)>>, <<Some(740000), None>>} }

IocArgs ==
  { [NoArgs EXCEPT !.iocfile = Some(p), !.ioctype = k, !.hostname = h] :
      p \in {"iocs.txt", "missing.txt"}, k \in {None, Some("ipaddr")},
      h \in {None, Some("h1")} }

DefArgs ==
  { [NoArgs EXCEPT !.deffile = Some(p), !.username = u] :
      p \in {"browsers.json", "tools.json", "bad.json", "missing.json", ""},
      u \in {None, Some("bob")} }
  \cup
  { [NoArgs EXCEPT !.defdir = Some(p)] : p \in {"defs", "nodir"} }

RunArgs ==
  { WithBackend(a, b) : a \in QueryArgs \cup IocArgs \cup DefArgs, b \in Backends }

\* Every pair of time options, in either order, on either backend.
TimeArgs ==
  { [NoArgs EXCEPT !.query = Some("cmdline:x"), !.cbc = c, !.days = d,
                   !.minutes = m, !.time_last = l] :
      c \in BOOLEAN, d \in DayValues, m \in MinuteValues,
      l \in {"days", "minutes"} }

\* The state main() starts in, the arguments parsed.
Start(a, f, clock) ==
  /\ args = a
  /\ fs = f
  /\ now = clock
  /\ pc = "validate"
  /\ exit_code = 0 - 1
  /\ uncaught = ""
  /\ query_base = ""
  /\ definition_files = <<>>
  /\ data = <<>>
  /\ programs = <<>>
  /\ idx = [ioc |-> 0, def |-> 0, prog |-> 0, field |-> 0]
  /\ result_set = {}
  /\ to_write = {}
  /\ query = ""
  /\ results = {}
  /\ yielded = 0
  /\ nested = {}
  /\ opens = 0
  /\ closes = 0
  /\ rows = <<>>
  /\ searches = <<>>
  /\ calls = <<>>
  /\ reported = <<>>
  /\ skip_logged = 0
  /\ caught_logged = 0
  /\ sigints = 0

Init ==
  \E a \in RunArgs :
    \E t \in (IF a.iocfile = Some("iocs.txt") /\ a.ioctype # None THEN IocTexts ELSE {""}) :
      \E c \in (IF a.cbc /\ a.days # None THEN Clocks ELSE {DefaultClock}) :
        \E l \in (IF a.defdir = Some("defs") THEN WalkListings ELSE {DefaultListing}) :
          Start(a, FileSystem(t, l), c)

InitArgs ==
  \E a \in TimeArgs :
    \E c \in (IF a.cbc THEN Clocks ELSE {DefaultClock}) :
      Start(a, FileSystem("", DefaultListing), c)

\* ------------------------------------------------------------- termination

\* sys.exit(code), parser.error() (code 2), or the end of main() (code 0).
Exit(code) ==
  /\ pc' = "done"
  /\ exit_code' = code
  /\ uncaught' = ""

\* The status of a process a signal killed, as subprocess reports it: the
\* signal's number negated (SIGINT is 2; a shell shows 130).
KilledBySigint == 0 - 2

\* An exception nothing catches: the interpreter prints the traceback and
\* exits with status 1; for a KeyboardInterrupt it then restores the default
\* SIGINT handler and kills itself with SIGINT.
Raise(exc) ==
  /\ pc' = "done"
  /\ exit_code' = IF exc = "KeyboardInterrupt" THEN KilledBySigint ELSE 1
  /\ uncaught' = exc

\* ------------------------------------------------------------------ main()

\* Lines 142-181: argument validation and the base query.
ValidateArgs ==
  /\ pc = "validate"
  /\ IF MissingIocType(args)
     THEN /\ Exit(2)
          /\ UNCHANGED query_base
     ELSE IF TimeOverflow(args)
     THEN /\ Raise("OverflowError")
          /\ UNCHANGED query_base
     ELSE IF ArgError(args)
     THEN /\ Exit(2)
          /\ UNCHANGED query_base
     ELSE /\ pc' = "paths"
          /\ query_base' = BaseQuery(args)
          /\ UNCHANGED <<exit_code, uncaught>>
  /\ UNCHANGED <<inputs, definition_files, data, programs, idx, result_set, to_write,
                 search_locals, outfile, observed, sigints>>

\* Lines 183-196: the existence checks and the list of definition files.
CheckPaths ==
  /\ pc = "paths"
  /\ IF PathMissing(args, fs)
     THEN /\ Exit(1)
          /\ UNCHANGED definition_files
     ELSE /\ pc' = "open"
          /\ definition_files' = DefinitionFiles(args, fs)
          /\ UNCHANGED <<exit_code, uncaught>>
  /\ UNCHANGED <<inputs, query_base, data, programs, idx, result_set, to_write,
                 search_locals, outfile, observed, sigints>>

Header == <<"endpoint", "username", "process_path", "cmdline", "program", "source">>

\* Lines 198-201: open(output_filename, 'w') creates or truncates the file.
OpenOutput ==
  /\ pc = "open"
  /\ opens' = opens + 1
  /\ rows' = <<>>
  /\ pc' = "header"
  /\ UNCHANGED <<inputs, exit_code, uncaught, main_locals, search_locals, closes,
                 observed, sigints>>

\* Lines 202-203: the csv writer and the header row.
WriteHeader ==
  /\ pc = "header"
  /\ rows' = Append(rows, Header)
  /\ pc' = "dispatch"
  /\ UNCHANGED <<inputs, exit_code, uncaught, main_locals, search_locals, opens, closes,
                 observed, sigints>>

\* FieldQuery joining the atoms with AND.
FieldQuery_and_joined(c) ==
  "(" \o Join(" AND ", [i \in 1..Len(c.terms) |-> c.field \o ":" \o c.terms[i]]) \o ")"

\* Line 98: the query nested_process_search builds for one field.
FieldQuery(c) ==
  "(" \o Join(" OR ", [i \in 1..Len(c.terms) |-> c.field \o ":" \o c.terms[i]]) \o ")"

\* Line 223: the query main() builds for one line of the indicator file.
IocQuery(a, line) == a.ioctype[1] \o ":" \o Strip(line)

\* cb_conn.convert_query(): the service's translation of a query text, of
\* which the model keeps only that it is a text the service derives from
\* the query.
convert_query(q) == "cbc(" \o q \o ")"

\* str(x) of a document field, None included.
str(o) == IF o = None THEN "None" ELSE o[1]

\* Lines 74-77 (cloud) and 81-84 (on-premises): the tuple added to results.
Normalize(a, r) ==
  IF a.cbc
  THEN <<Lower(str(r.host)), Lower(str(r.user)), str(r.path), str(r.cmdline)>>
  ELSE <<Lower(r.host[1]), Lower(r.user[1]), r.path[1], r.cmdline[1]>>

\* Lines 81-82: None has no lower().
NormalizeRaises(a, r) == ~a.cbc /\ (r.host = None \/ r.user = None)

\* The program column and the source column of the rows being written
\* (lines 213, 231, 238-239 and 253).
RowName ==
  IF Mode(args) = "query" THEN args.query[1]
  ELSE IF Mode(args) = "ioc" THEN Strip(data[idx.ioc])
  ELSE programs[idx.prog].name

RowSource ==
  IF Mode(args) = "query" THEN "query"
  ELSE IF Mode(args) = "ioc" THEN "ioc"
  ELSE splitext0(basename(definition_files[idx.def]))

Row(r) == <<r[1], r[2], r[3], r[4], RowName, RowSource>>

\* The call process_search(cb, q, query_base, args.translate) of lines 100,
\* 207 and 224: the function is entered, its try is not.  The record of the
\* call notes what the call goes on to do: the text it hands to the search
\* endpoint, whether it logged a skip, whether it caught an interrupt, and
\* what it returned.
CallProcessSearch(q) ==
  /\ query' = q
  /\ results' = {}
  /\ yielded' = 0
  /\ calls' = Append(calls, [query |-> q, base |-> query_base, searched |-> None,
                             skipped |-> FALSE, caught |-> FALSE, returned |-> None])
  /\ pc' = "ps_call"

\* Lines 205-207: single-query mode.
RunQuery ==
  /\ pc = "dispatch"
  /\ Mode(args) = "query"
  /\ CallProcessSearch(args.query[1])
  /\ UNCHANGED <<inputs, exit_code, uncaught, main_locals, nested, outfile,
                 searches, reported, skip_logged, caught_logged, sigints>>

\* Lines 217-220: open(args.iocfile) and readlines().
OpenIocFile ==
  /\ pc = "dispatch"
  /\ Mode(args) = "ioc"
  /\ IF args.iocfile[1] \in fs.exists
     THEN /\ data' = ReadLines(fs.ioc_text)
          /\ idx' = [idx EXCEPT !.ioc = 1]
          /\ pc' = "ioc_loop"
          /\ UNCHANGED <<exit_code, uncaught>>
     ELSE /\ Raise("IOError")
          /\ UNCHANGED <<data, idx>>
  /\ UNCHANGED <<inputs, query_base, definition_files, programs, result_set, to_write,
                 search_locals, outfile, observed, sigints>>

\* Lines 221-224: the next line of the indicator file, or the end of the loop.
NextIoc ==
  /\ pc = "ioc_loop"
  /\ IF idx.ioc <= Len(data)
     THEN /\ CallProcessSearch(IocQuery(args, data[idx.ioc]))
          /\ UNCHANGED <<searches, reported, skip_logged, caught_logged>>
     ELSE /\ pc' = "close"
          /\ UNCHANGED <<query, results, yielded, observed>>
  /\ UNCHANGED <<inputs, exit_code, uncaught, main_locals, nested, outfile, sigints>>

\* Line 235-236: definition-file modes.
StartDefinitions ==
  /\ pc = "dispatch"
  /\ Mode(args) = "def"
  /\ idx' = [idx EXCEPT !.def = 1]
  /\ pc' = "def_loop"
  /\ UNCHANGED <<inputs, exit_code, uncaught, query_base, definition_files, data,
                 programs, result_set, to_write, search_locals, outfile, observed,
                 sigints>>

\* Lines 236-242: the next definition file is opened and parsed, or the loop ends.
LoadDefinition ==
  /\ pc = "def_loop"
  /\ IF idx.def <= Len(definition_files)
     THEN LET doc == fs.docs[definition_files[idx.def]]
          IN  IF doc.valid
              THEN /\ programs' = doc.programs
                   /\ idx' = [idx EXCEPT !.prog = 1]
                   /\ pc' = "prog_loop"
                   /\ UNCHANGED <<exit_code, uncaught>>
              ELSE /\ Raise("ValueError")
                   /\ UNCHANGED <<programs, idx>>
     ELSE /\ pc' = "close"
          /\ UNCHANGED <<exit_code, uncaught, programs, idx>>
  /\ UNCHANGED <<inputs, query_base, definition_files, data, result_set, to_write,
                 search_locals, outfile, observed, sigints>>

\* Lines 244-247 and 95: the next program of the file, or the next file.
NextProgram ==
  /\ pc = "prog_loop"
  /\ IF idx.prog <= Len(programs)
     THEN /\ nested' = {}
          /\ idx' = [idx EXCEPT !.field = 1]
          /\ pc' = "field_loop"
     ELSE /\ idx' = [idx EXCEPT !.def = idx.def + 1]
          /\ pc' = "def_loop"
          /\ UNCHANGED nested
  /\ UNCHANGED <<inputs, exit_code, uncaught, query_base, definition_files, data,
                 programs, result_set, to_write, query, results, yielded, outfile,
                 observed, sigints>>

\* Lines 97-102 and 247: nested_process_search's loop over the fields; at
\* its end the result set is returned to main().
NextField ==
  /\ pc = "field_loop"
  /\ LET criteria == programs[idx.prog].criteria
     IN  IF idx.field <= Len(criteria)
         THEN /\ CallProcessSearch(FieldQuery(criteria[idx.field]))
              /\ UNCHANGED <<result_set, to_write, reported>>
         ELSE /\ result_set' = nested
              /\ pc' = "count"
              /\ UNCHANGED <<to_write, reported, query, results, yielded, calls>>
  /\ UNCHANGED <<inputs, exit_code, uncaught, query_base, definition_files, data,
                 programs, idx, nested, outfile, searches, skip_logged, caught_logged,
                 sigints>>

\* ---------------------------------------------------------- process_search

Translating == args.cbc /\ args.translate

\* Lines 61 and 63: results = set(), and the try is entered.
EnterTry ==
  /\ pc = "ps_call"
  /\ results' = {}
  /\ pc' = "ps_enter"
  /\ UNCHANGED <<inputs, exit_code, uncaught, main_locals, query, yielded, nested,
                 outfile, observed, sigints>>

\* Lines 64-67: on the cloud backend with translation asked for, the request
\* to convert_query returns and its answer is assigned to query.
Translate ==
  /\ pc = "ps_enter"
  /\ Translating
  /\ query' = convert_query(query)
  /\ pc' = "ps_append"
  /\ UNCHANGED <<inputs, exit_code, uncaught, main_locals, results, yielded, nested,
                 outfile, observed, sigints>>

\* Lines 64-65 and 78 when no translation is asked for: the tests lead to the
\* statement that appends the base query.
NoTranslation ==
  /\ pc = "ps_enter"
  /\ ~Translating
  /\ pc' = "ps_append"
  /\ UNCHANGED <<inputs, exit_code, uncaught, main_locals, search_locals, outfile,
                 observed, sigints>>

\* Lines 72 and 79: query += query_base.
AppendBase ==
  /\ pc = "ps_append"
  /\ query' = query \o query_base
  /\ pc' = "ps_select"
  /\ UNCHANGED <<inputs, exit_code, uncaught, main_locals, results, yielded, nested,
                 outfile, observed, sigints>>

\* The record of the current call notes the text handed to the search endpoint.
Searched(text) == [calls EXCEPT ![Len(calls)].searched = Some(text)]

\* Lines 73 and 80: cb_conn.select(...).where(query), the query handed to the
\* search endpoint.
Search ==
  /\ pc = "ps_select"
  /\ searches' = Append(searches, query)
  /\ calls' = Searched(query)
  /\ pc' = "ps_iter"
  /\ UNCHANGED <<inputs, exit_code, uncaught, main_locals, search_locals, outfile,
                 reported, skip_logged, caught_logged, sigints>>

\* TranslateFails logging the failure and going on with the query as it is.
TranslateFails_still_searches ==
  /\ pc = "ps_enter"
  /\ Translating
  /\ skip_logged' = skip_logged + 1
  /\ calls' = [calls EXCEPT ![Len(calls)].skipped = TRUE]
  /\ pc' = "ps_append"
  /\ UNCHANGED <<inputs, exit_code, uncaught, main_locals, search_locals, outfile,
                 searches, reported, caught_logged, sigints>>

\* Lines 67-69: convert_query raises ServerError, the inner except clause
\* logs the skip.  The return of line 70 is still to come, inside the try.
TranslateFails ==
  /\ pc = "ps_enter"
  /\ Translating
  /\ skip_logged' = skip_logged + 1
  /\ calls' = [calls EXCEPT ![Len(calls)].skipped = TRUE]
  /\ pc' = "ps_skip"
  /\ UNCHANGED <<inputs, exit_code, uncaught, main_locals, search_locals, outfile,
                 searches, reported, caught_logged, sigints>>

\* Lines 73-77 and 80-84: the search yields one more document.
Yield ==
  /\ pc = "ps_iter"
  /\ yielded < MaxRecs
  /\ \E r \in RawRecords :
       IF NormalizeRaises(args, r)
       THEN /\ Raise("AttributeError")
            /\ UNCHANGED <<results, yielded>>
       ELSE /\ results' = results \cup {Normalize(args, r)}
            /\ yielded' = yielded + 1
            /\ UNCHANGED control
  /\ UNCHANGED <<inputs, main_locals, query, nested, outfile, observed, sigints>>

\* Lines 73 and 80: the search has no more documents.
Exhausted ==
  /\ pc = "ps_iter"
  /\ pc' = "ps_return"
  /\ UNCHANGED <<inputs, exit_code, uncaught, main_locals, search_locals, outfile,
                 observed, sigints>>

\* InTry when the try encloses the iteration alone.
InTry_iteration_only == pc = "ps_iter"

\* The statements the try of lines 63-84 encloses are running: the
\* translation of the query, the skip log and the return after a failed
\* translation, the appending of the base query, the making of the search,
\* the iteration.  Line 61 comes before the try, the except clause and line
\* 88 after it.
InTry == pc \in {"ps_enter", "ps_skip", "ps_append", "ps_select", "ps_iter"}

\* A request to the service is under way: convert_query, or the fetches the
\* iteration makes.
InRequest == pc = "ps_iter" \/ (pc = "ps_enter" /\ Translating)

\* CatchInterrupt without the except clause: the interrupt propagates.
CatchInterrupt_propagates ==
  /\ InTry
  /\ sigints < MaxSigints
  /\ sigints' = sigints + 1
  /\ Raise("KeyboardInterrupt")
  /\ UNCHANGED <<inputs, main_locals, search_locals, outfile, observed>>

\* Line 85: a KeyboardInterrupt raised inside the try of lines 63-84 is
\* caught; the except clause is entered.
CatchInterrupt ==
  /\ InTry
  /\ sigints < MaxSigints
  /\ sigints' = sigints + 1
  /\ calls' = [calls EXCEPT ![Len(calls)].caught = TRUE]
  /\ pc' = "ps_caught"
  /\ UNCHANGED <<inputs, exit_code, uncaught, main_locals, search_locals, outfile,
                 searches, reported, skip_logged, caught_logged>>

\* Line 86: the except clause logs the interrupt; line 88 is next.
LogCaught ==
  /\ pc = "ps_caught"
  /\ caught_logged' = caught_logged + 1
  /\ pc' = "ps_return"
  /\ UNCHANGED <<inputs, exit_code, uncaught, main_locals, search_locals, outfile,
                 searches, calls, reported, skip_logged, sigints>>

\* An exception of the client other than ServerError in convert_query, or any
\* exception while the documents are fetched: nothing catches it.
BackendRaises ==
  /\ InRequest
  /\ Raise("ApiError")
  /\ UNCHANGED <<inputs, main_locals, search_locals, outfile, observed, sigints>>

\* `return results` and the statement of the caller that takes the value:
\* results.update(...) of line 100 in nested_process_search, the assignment
\* to result_set of lines 207 and 224 in main().
HandBack ==
  /\ calls' = [calls EXCEPT ![Len(calls)].returned = Some(results)]
  /\ IF Mode(args) = "def"
     THEN /\ nested' = nested \cup results
          /\ idx' = [idx EXCEPT !.field = idx.field + 1]
          /\ pc' = "field_loop"
          /\ UNCHANGED result_set
     ELSE /\ result_set' = results
          /\ pc' = "count"
          /\ UNCHANGED <<nested, idx>>
  /\ UNCHANGED <<inputs, exit_code, uncaught, query_base, definition_files, data,
                 programs, to_write, query, results, yielded, outfile, searches,
                 reported, skip_logged, caught_logged, sigints>>

\* Line 70: the return after a failed translation, from inside the try.
SkipReturn ==
  /\ pc = "ps_skip"
  /\ HandBack

\* Line 88: the return after the try statement.
Return ==
  /\ pc = "ps_return"
  /\ HandBack

\* Lines 209-210, 225-228 and 249-250: main() logs the size of the result
\* set and turns to its rows.
ReportCount ==
  /\ pc = "count"
  /\ reported' = Append(reported, <<RowName, Cardinality(result_set)>>)
  /\ to_write' = result_set
  /\ pc' = "write"
  /\ UNCHANGED <<inputs, exit_code, uncaught, query_base, definition_files, data,
                 programs, idx, result_set, search_locals, outfile, searches, calls,
                 skip_logged, caught_logged, sigints>>

\* ------------------------------------------------------------ writing rows

\* Lines 212-216, 230-234, 252-256: one more row of the result set.
WriteRow ==
  /\ pc = "write"
  /\ \E r \in to_write :
       /\ rows' = Append(rows, Row(r))
       /\ to_write' = to_write \ {r}
  /\ UNCHANGED <<inputs, control, query_base, definition_files, data, programs, idx,
                 result_set, search_locals, opens, closes, observed, sigints>>

\* The row loop ends: main() goes on to the next indicator, the next program,
\* or, in single-query mode, to line 258.
RowsWritten ==
  /\ pc = "write"
  /\ to_write = {}
  /\ IF Mode(args) = "query"
     THEN /\ pc' = "close"
          /\ UNCHANGED idx
     ELSE IF Mode(args) = "ioc"
     THEN /\ idx' = [idx EXCEPT !.ioc = idx.ioc + 1]
          /\ pc' = "ioc_loop"
     ELSE /\ idx' = [idx EXCEPT !.prog = idx.prog + 1]
          /\ pc' = "prog_loop"
  /\ UNCHANGED <<inputs, exit_code, uncaught, query_base, definition_files, data,
                 programs, result_set, to_write, search_locals, outfile, observed,
                 sigints>>

\* Line 258: output_file.close().
CloseOutput ==
  /\ pc = "close"
  /\ closes' = closes + 1
  /\ pc' = "saved"
  /\ UNCHANGED <<inputs, exit_code, uncaught, main_locals, search_locals, opens, rows,
                 observed, sigints>>

\* Lines 260 and 263: the "Results saved" line, the return of main() and
\* sys.exit of its None.
Finish ==
  /\ pc = "saved"
  /\ Exit(0)
  /\ UNCHANGED <<inputs, main_locals, search_locals, outfile, observed, sigints>>

\* A KeyboardInterrupt raised anywhere outside the try of lines 63-84:
\* nothing catches it.
UncaughtInterrupt ==
  /\ pc # "done"
  /\ ~InTry
  /\ sigints < MaxSigints
  /\ sigints' = sigints + 1
  /\ Raise("KeyboardInterrupt")
  /\ UNCHANGED <<inputs, main_locals, search_locals, outfile, observed>>

Next ==
  \/ ValidateArgs
  \/ CheckPaths
  \/ OpenOutput
  \/ WriteHeader
  \/ RunQuery
  \/ OpenIocFile
  \/ NextIoc
  \/ StartDefinitions
  \/ LoadDefinition
  \/ NextProgram
  \/ NextField
  \/ EnterTry
  \/ Translate
  \/ NoTranslation
  \/ AppendBase
  \/ Search
  \/ TranslateFails
  \/ Yield
  \/ Exhausted
  \/ CatchInterrupt
  \/ LogCaught
  \/ BackendRaises
  \/ SkipReturn
  \/ Return
  \/ ReportCount
  \/ WriteRow
  \/ RowsWritten
  \/ CloseOutput
  \/ Finish
  \/ UncaughtInterrupt

Spec == Init /\ [][Next]_vars

NextArgs == ValidateArgs

SpecArgs == InitArgs /\ [][NextArgs]_vars

\* ------------------------------------------------- what a batch consists of

RECURSIVE Flatten(_)
Flatten(ss) == IF ss = <<>> THEN <<>> ELSE ss[1] \o Flatten(Tail(ss))

\* The process_search calls one program gives rise to (lines 97-100), with
\* the program and source columns of its rows (lines 238-239, 253).
ProgramPlan(p, source) ==
  [k \in 1..Len(p.criteria) |->
     [query |-> FieldQuery(p.criteria[k]), name |-> p.name, source |-> source]]

\* Lines 236-247: the calls of one definition file.
FilePlan(f, path) ==
  LET progs == f.docs[path].programs
  IN  Flatten([j \in 1..Len(progs) |-> ProgramPlan(progs[j], splitext0(basename(path)))])

\* Lines 221-224 and 231: the calls of the indicator file.
IocPlan(a, f) ==
  LET lines == ReadLines(f.ioc_text)
  IN  [i \in 1..Len(lines) |->
         [query |-> IocQuery(a, lines[i]), name |-> Strip(lines[i]), source |-> "ioc"]]

\* Lines 205-256: every process_search call of a run that nothing cuts short,
\* in order.
Plan(a, f) ==
  IF Mode(a) = "query"
  THEN << [query |-> a.query[1], name |-> a.query[1], source |-> "query"] >>
  ELSE IF Mode(a) = "ioc" THEN IocPlan(a, f)
  ELSE LET files == DefinitionFiles(a, f)
       IN  Flatten([i \in 1..Len(files) |-> FilePlan(f, files[i])])

\* ---------------------------------------------------------------- properties

Done == pc = "done"

\* The run reached the end of main(): nothing cut it short.
Completed == Done /\ uncaught = "" /\ opens > 0

DataRows == IF rows = <<>> THEN <<>> ELSE Tail(rows)

\* The number of data rows equal to row.
RowCount(row) == Cardinality({ i \in 1..Len(DataRows) : DataRows[i] = row })

\* The number of places at which needle occurs in hay.
Occurrences(needle, hay) ==
  Cardinality({ i \in 1..(Len(hay) - Len(needle) + 1) :
                  SubSeq(hay, i, i + Len(needle) - 1) = needle })

\* The path a file-based input mode selects, if any.
SelectedPath(a) ==
  IF a.deffile # None THEN a.deffile
  ELSE IF a.defdir # None THEN a.defdir
  ELSE a.iocfile

\* C1: in every file-based input mode (--deffile, --defdir, --iocfile), when
\* the selected path does not exist the run ends with a non-zero exit status,
\* the output file is never opened and no query is executed.  (Runs that an
\* interrupt ends are left out: they are not what the claim is about.)
C1_MissingPathFailsBeforeOutput ==
  (SelectedPath(args) # None /\ SelectedPath(args)[1] \notin fs.exists /\ sigints = 0)
    => /\ opens = 0
       /\ rows = <<>>
       /\ calls = <<>>
       /\ searches = <<>>
       /\ (Done => exit_code # 0)

\* C3: on every path that ends the run after the output file was opened, the
\* file was opened exactly once and closed exactly once.
C3_OutputReleasedOnEveryExit ==
  (Done /\ opens > 0) => (opens = 1 /\ closes = 1)

\* C5: the output holds at most one data row (R, P, S) for every record R,
\* name P and source S, exactly one when some query of P returned R, and the
\* count reported for P is the number of those rows.
C5_OneRowPerRecordAndProgram ==
  /\ \A i, j \in 1..Len(DataRows) : DataRows[i] = DataRows[j] => i = j
  /\ Completed =>
       /\ \A n \in 1..Len(calls) : \A r \in calls[n].returned[1] :
            LET pl == Plan(args, fs)[n]
            IN  RowCount(<<r[1], r[2], r[3], r[4], pl.name, pl.source>>) = 1
       /\ \A k \in 1..Len(reported) :
            reported[k][2] =
              Cardinality({ i \in 1..Len(DataRows) : DataRows[i][5] = reported[k][1] })

\* The trimmed lines of the indicator file that are not empty, in file order.
IndicatorTerms(f) ==
  LET lines == ReadLines(f.ioc_text)
  IN  SelectSeq([i \in 1..Len(lines) |-> Strip(lines[i])], LAMBDA v : v # "")

\* C6: in indicator-file mode a completed run (one in which no query was
\* interrupted or skipped) has issued exactly one query per non-empty trimmed
\* line V of the file, `<ioctype>:V` followed by the base fragment, in file
\* order, and every row has program column V and source ioc.
C6_OneQueryPerNonEmptyLine ==
  (Completed /\ Mode(args) = "ioc" /\ sigints = 0 /\ skip_logged = 0) =>
    LET terms == IndicatorTerms(fs)
    IN  /\ Len(searches) = Len(terms)
        /\ Len(calls) = Len(terms)
        /\ \A i \in 1..Len(calls) :
             /\ i <= Len(terms)
             /\ calls[i].query = args.ioctype[1] \o ":" \o terms[i]
             /\ calls[i].base = query_base
        /\ \A i \in 1..Len(DataRows) :
             /\ \E k \in 1..Len(terms) : DataRows[i][5] = terms[k]
             /\ DataRows[i][6] = "ioc"

\* ------------------------------------------------------------- time window

\* Both --days and --minutes were given, and validation has passed.
BothTimeOptions == pc = "paths" /\ args.days # None /\ args.minutes # None

\* The texts that open a time-window clause on the two backends.
TimePrefix(a) == IF a.cbc THEN " process_start_time:[" ELSE " start:-"

\* C7 as claimed: with both --days and --minutes given (here: both counts
\* non-zero), the base query holds exactly one time-window clause, that of
\* the option given last on the command line.
C7_LastTimeOptionWins ==
  (BothTimeOptions /\ args.days[1] # 0 /\ args.minutes[1] # 0) =>
    /\ Occurrences(TimePrefix(args), query_base) = 1
    /\ query_base = (IF args.time_last = "days" THEN DaysClause(args)
                     ELSE MinutesClause(args))

\* Both --days and --minutes were given.
BothGiven == args.days # None /\ args.minutes # None

\* C7 as amended: with both --days and --minutes given, the order of the two
\* options plays no part and --days comes first.  When the option that counts
\* (the day count when it is not 0, else the minute count when it is not 0)
\* puts the start of the window on the cloud backend outside the years 1 to
\* 9999, the run ends with an uncaught OverflowError, status 1, no base query
\* and nothing opened.  Otherwise the base query holds at most one
\* time-window clause: the --days clause when the day count is not 0, else
\* the --minutes clause when the minute count is not 0, else none.
C7_DaysTakePrecedence ==
  /\ BothTimeOptions =>
       /\ ~TimeOverflow(args)
       /\ Occurrences(TimePrefix(args), query_base) =
            (IF args.days[1] # 0 \/ args.minutes[1] # 0 THEN 1 ELSE 0)
       /\ args.days[1] # 0 => query_base = DaysClause(args)
       /\ (args.days[1] = 0 /\ args.minutes[1] # 0) => query_base = MinutesClause(args)
       /\ (args.days[1] = 0 /\ args.minutes[1] = 0) => query_base = ""
  /\ (BothGiven /\ Done /\ sigints = 0) =>
       /\ TimeOverflow(args)
       /\ uncaught = "OverflowError"
       /\ exit_code = 1
       /\ query_base = ""
       /\ opens = 0

\* --minutes came last, both counts are non-zero and name different windows,
\* and the base query is the --days clause.
C7_Witness ==
  /\ BothTimeOptions
  /\ args.time_last = "minutes"
  /\ args.days = Some(1)
  /\ args.minutes = Some(2)
  /\ query_base = DaysClause(args)
  /\ query_base # MinutesClause(args)

\* ------------------------------------------------------ filter validation

\* --hostname (resp. --username) was given, with any value, and comes with a
\* raw --query whose text holds the backend's host (resp. user) field name.
FilterGivenWithQueryField ==
  /\ args.query # None
  /\ \/ args.hostname # None /\
          Contains(IF args.cbc THEN "device_name" ELSE "hostname", args.query[1])
     \/ args.username # None /\
          Contains(IF args.cbc THEN "process_username" ELSE "username", args.query[1])

\* The same with a value that is not empty.
FilterRepeatsQueryField ==
  /\ args.query # None
  /\ \/ TruthyStr(args.hostname) /\
          Contains(IF args.cbc THEN "device_name" ELSE "hostname", args.query[1])
     \/ TruthyStr(args.username) /\
          Contains(IF args.cbc THEN "process_username" ELSE "username", args.query[1])

\* The run ended before line 174: --iocfile without --ioctype, or a time
\* window outside datetime's range.
EndsBeforeFilterChecks == MissingIocType(args) \/ TimeOverflow(args)

\* C8 as claimed: when --hostname (resp. --username) is given with a raw
\* --query that already holds the backend's host (resp. user) field, the run
\* ends in argument validation with a non-zero exit status: the output file
\* is never opened (neither created nor truncated) and no query is executed.
C8_FilterConflictRejected ==
  FilterGivenWithQueryField =>
    /\ pc \in {"validate", "done"}
    /\ opens = 0
    /\ rows = <<>>
    /\ calls = <<>>
    /\ searches = <<>>
    /\ Done => exit_code # 0

\* C8 as amended.  With a value that is not empty, the filter checks of
\* lines 174-181, when the run reaches them, end it with parser.error():
\* status 2, the output file never opened, no query executed; the run does
\* not reach them when the time window of the cloud backend is out of range,
\* and then ends with an uncaught OverflowError and status 1, nothing opened.
\* With the empty value and no other conflict, validation passes: no filter
\* is added to the base query, the output file is opened and the query made.
C8_NonEmptyFilterConflictRejected ==
  /\ FilterRepeatsQueryField =>
       /\ pc \in {"validate", "done"}
       /\ opens = 0
       /\ rows = <<>>
       /\ calls = <<>>
       /\ searches = <<>>
       /\ (Done /\ sigints = 0 /\ ~EndsBeforeFilterChecks) =>
            exit_code = 2 /\ uncaught = ""
       /\ (Done /\ sigints = 0 /\ TimeOverflow(args)) =>
            exit_code = 1 /\ uncaught = "OverflowError"
       /\ (Done /\ sigints > 0) =>
            exit_code = KilledBySigint /\ uncaught = "KeyboardInterrupt"
  /\ (FilterGivenWithQueryField /\ ~FilterRepeatsQueryField /\ ~EndsBeforeFilterChecks
        /\ sigints = 0 /\ pc # "validate") =>
       /\ exit_code # 2
       /\ query_base = TimeWindow(args) \o HostClause(args) \o UserClause(args)
       /\ args.hostname = Some("") => Occurrences(host_key(args) \o ":", query_base) = 0
       /\ args.username = Some("") => Occurrences(user_key(args) \o ":", query_base) = 0
       /\ Done => opens = 1 /\ Len(calls) = 1
       /\ \A n \in 1..Len(calls) : calls[n].query = args.query[1]

\* Validation has rejected --hostname h1 with a query naming the cloud
\* backend's host field.
C8_Witness ==
  /\ Done
  /\ exit_code = 2
  /\ args.cbc
  /\ args.hostname = Some("h1")
  /\ args.query = Some("device_name:h1")
  /\ opens = 0

\* ---------------------------------------------------------------- interrupts

\* The rows of the records the n-th process_search call returned.
RowsOfCall(n) ==
  LET pl == Plan(args, fs)[n]
  IN  { <<r[1], r[2], r[3], r[4], pl.name, pl.source>> : r \in calls[n].returned[1] }

RowSet == { DataRows[i] : i \in 1..Len(DataRows) }

\* Every call of the batch was made, in order, and has returned.
BatchExecuted ==
  /\ Len(calls) = Len(Plan(args, fs))
  /\ \A n \in 1..Len(calls) :
       /\ calls[n].query = Plan(args, fs)[n].query
       /\ calls[n].returned # None

\* C2: an interrupt received while the records of a query are iterated ends
\* only that query.  The except clause of process_search takes it, with
\* exactly the records accumulated so far; the clause logs it and goes to the
\* return of line 88, the interrupt does not propagate, and what the call
\* returns is that set.  In a run in which an interrupt was caught and that
\* nothing else cut short, every query of the batch was executed, the
\* records every call returned are rows of the output, the exit status is 0
\* and the output file is closed.
C2_InterruptEndsOnlyTheQuery ==
  /\ [][(pc = "ps_iter" /\ sigints' > sigints) =>
          /\ pc' = "ps_caught"
          /\ results' = results
          /\ calls'[Len(calls)].caught
          /\ uncaught' = ""
          /\ exit_code' = exit_code]_vars
  /\ [][(pc = "ps_caught" /\ sigints' = sigints) =>
          /\ pc' = "ps_return"
          /\ results' = results
          /\ caught_logged' = caught_logged + 1
          /\ uncaught' = ""]_vars
  /\ [][(pc = "ps_return" /\ sigints' = sigints) =>
          /\ calls'[Len(calls)].returned = Some(results)
          /\ IF Mode(args) = "def" THEN nested' = nested \cup results
             ELSE result_set' = results
          /\ uncaught' = ""]_vars
  /\ []((Completed /\ caught_logged > 0) =>
          /\ exit_code = 0
          /\ opens = 1
          /\ closes = 1
          /\ BatchExecuted
          /\ \A n \in 1..Len(calls) : RowsOfCall(n) \subseteq RowSet)

\* The first query of a two-line indicator file was interrupted with a
\* record already collected; its row is written and the second query is
\* about to be made.
C2_Witness ==
  /\ pc = "ioc_loop"
  /\ idx.ioc = 2
  /\ Len(data) = 2
  /\ caught_logged = 1
  /\ Len(calls) = 1
  /\ Cardinality(calls[1].returned[1]) = 1
  /\ Len(DataRows) = 1
  /\ uncaught = ""

\* C10 as claimed: an interrupt is caught only while the records of a query
\* are iterated; one that arrives at any other point is not caught,
\* propagates and ends the run.
C10_CaughtOnlyInIteration ==
  [][sigints' > sigints =>
       IF pc = "ps_iter"
       THEN pc' = "ps_caught" /\ uncaught' = ""
       ELSE pc' = "done" /\ uncaught' = "KeyboardInterrupt"]_vars

\* C10 as amended: an interrupt is caught exactly while the try block of
\* process_search (lines 63-84) runs: while the query is translated and the
\* base fragment appended, while the skip of a failed translation is logged
\* and returned from (lines 69-70), and while the records are iterated.  The
\* except clause then has what was collected (nothing, before the iteration)
\* and no further search is made.  An interrupt that arrives at any other
\* point (argument validation, opening the output, loading criteria, the
\* entry of process_search and its line 61, its except clause and its line
\* 88, reporting the count, writing rows, closing) is not caught: it kills
\* the run, and nothing more is written or closed.
C10_CaughtInsideProcessSearchTry ==
  /\ [][sigints' > sigints =>
          IF pc \in {"ps_enter", "ps_skip", "ps_append", "ps_select", "ps_iter"}
          THEN /\ pc' = "ps_caught"
               /\ query' = query
               /\ uncaught' = ""
               /\ exit_code' = exit_code
               /\ results' = results
               /\ searches' = searches
               /\ calls'[Len(calls)].caught
          ELSE /\ pc' = "done"
               /\ uncaught' = "KeyboardInterrupt"
               /\ exit_code' = KilledBySigint
               /\ closes' = closes
               /\ rows' = rows
               /\ calls' = calls
               /\ caught_logged' = caught_logged]_vars
  /\ [][caught_logged' # caught_logged =>
          /\ pc = "ps_caught"
          /\ pc' = "ps_return"
          /\ caught_logged' = caught_logged + 1
          /\ calls[Len(calls)].caught]_vars

\* One call of process_search logged the skip of a failed translation and
\* then caught an interrupt before its return of line 70: it is at line 88
\* with the empty set, and nothing was searched.
C10_Witness ==
  /\ pc = "ps_return"
  /\ Translating
  /\ caught_logged = 1
  /\ skip_logged = 1
  /\ Len(calls) = 1
  /\ calls[1].skipped /\ calls[1].caught
  /\ searches = <<>>
  /\ results = {}

\* ---------------------------------------------------- translation failures

\* C4: on the cloud backend with translation asked for, a query whose
\* translation fails with a server error is not handed to the search
\* endpoint, neither when the failure is logged nor later in the call, and
\* the call returns the empty set for it, from line 70 or, when an interrupt
\* arrives before that return, from line 88; the ServerError does not
\* propagate.  The results of the other fields of the program are kept as
\* they are; and a run nothing else cut short has made every call of the
\* batch, each call that did not skip and caught no interrupt before its
\* search reaching the search endpoint with its translated query.
C4_FailedTranslationSkipsTheQuery ==
  /\ [][skip_logged' > skip_logged =>
          /\ args.cbc /\ args.translate
          /\ pc = "ps_enter" /\ pc' = "ps_skip"
          /\ calls'[Len(calls)].skipped
          /\ searches' = searches
          /\ results = {} /\ results' = {}
          /\ uncaught' = ""
          /\ exit_code' = exit_code]_vars
  /\ [][(pc = "ps_skip" /\ sigints' = sigints) =>
          /\ calls'[Len(calls)].returned = Some({})
          /\ IF Mode(args) = "def"
             THEN nested' = nested /\ pc' = "field_loop" /\ idx'.field = idx.field + 1
             ELSE result_set' = {} /\ pc' = "count"
          /\ uncaught' = ""]_vars
  /\ [](\A n \in 1..Len(calls) :
          calls[n].skipped =>
            /\ calls[n].searched = None
            /\ calls[n].returned \in {None, Some({})})
  /\ [](\A n \in 1..Len(calls) :
          calls[n].searched # None =>
            calls[n].searched =
              Some((IF args.cbc /\ args.translate THEN convert_query(calls[n].query)
                    ELSE calls[n].query) \o calls[n].base))
  /\ []((Completed /\ skip_logged > 0) =>
          /\ exit_code = 0
          /\ BatchExecuted
          /\ \A n \in 1..Len(calls) :
               (~calls[n].skipped /\ ~calls[n].caught) => calls[n].searched # None
          /\ Len(searches) = Cardinality({ n \in 1..Len(calls) : calls[n].searched # None })
          /\ \A n \in 1..Len(calls) : RowsOfCall(n) \subseteq RowSet)

\* A completed run over tools.json: the translation of the first field's
\* query of program psexec failed, the second field's query returned records
\* and the third query was made too.
C4_Witness ==
  /\ Completed
  /\ args.deffile = Some("tools.json")
  /\ skip_logged = 1
  /\ caught_logged = 0
  /\ Len(calls) = 3
  /\ Len(searches) = 2
  /\ calls[1].skipped /\ calls[1].returned = Some({})
  /\ calls[2].returned # Some({})
  /\ searches[1] = convert_query(calls[2].query) \o query_base
  /\ Len(DataRows) >= 1

\* ------------------------------------------------------------ nested search

RECURSIVE FieldsOf(_, _)
\* The number of fields of the first n programs of a document.
FieldsOf(progs, n) ==
  IF n = 0 THEN 0 ELSE FieldsOf(progs, n - 1) + Len(progs[n].criteria)

RECURSIVE FieldsOfFiles(_)
\* The number of fields of all programs of the first n definition files.
FieldsOfFiles(n) ==
  IF n = 0 THEN 0
  ELSE LET progs == fs.docs[definition_files[n]].programs
       IN  FieldsOfFiles(n - 1) + FieldsOf(progs, Len(progs))

\* The process_search calls made before the current program's.
CallsBefore == FieldsOfFiles(idx.def - 1) + FieldsOf(programs, idx.prog - 1)

RECURSIVE AtomPos(_, _)
\* Where the i-th `field:term` atom of a clause starts: after the opening
\* parenthesis, the earlier atoms and one " OR " after each of them.
AtomPos(c, i) ==
  IF i = 1 THEN 2
  ELSE AtomPos(c, i - 1) + Len(c.field) + 1 + Len(c.terms[i - 1]) + 4

\* q is one parenthesized clause of the atoms `field:term`, one per term of c
\* in input order, joined by " OR ".
IsOrClause(q, c) ==
  LET N == Len(c.terms)
      last == IF N = 0 THEN 1 ELSE AtomPos(c, N) + Len(c.field) + Len(c.terms[N])
  IN  /\ Len(q) = last + 1
      /\ Char(q, 1) = "("
      /\ Char(q, Len(q)) = ")"
      /\ Occurrences("(", q) = 1
      /\ Occurrences(")", q) = 1
      /\ Occurrences(" OR ", q) = (IF N = 0 THEN 0 ELSE N - 1)
      /\ \A i \in 1..N :
           LET p == AtomPos(c, i)
               atom == c.field \o ":" \o c.terms[i]
           IN  /\ SubSeq(q, p, p + Len(atom) - 1) = atom
               /\ i < N => SubSeq(q, p + Len(atom), p + Len(atom) + 3) = " OR "

\* C9: when nested_process_search has returned for a program with K fields,
\* it has made exactly K process_search calls, the k-th with the one
\* parenthesized OR-clause of the k-th field's terms and with the shared base
\* fragment, and its result is the union of the K sets returned; a query that
\* reaches the search endpoint is the call's query (translated, when
\* translation is on) followed by the base fragment.
C9_OneQueryPerField ==
  /\ (pc \in {"count", "write"} /\ Mode(args) = "def") =>
       LET criteria == programs[idx.prog].criteria
           K == Len(criteria)
       IN  /\ Len(calls) = CallsBefore + K
           /\ \A k \in 1..K :
                /\ IsOrClause(calls[CallsBefore + k].query, criteria[k])
                /\ calls[CallsBefore + k].base = query_base
                /\ calls[CallsBefore + k].returned # None
           /\ result_set = UNION { calls[CallsBefore + k].returned[1] : k \in 1..K }
  /\ (pc = "ps_iter" /\ Mode(args) = "def") =>
       searches[Len(searches)] =
         (IF args.cbc /\ args.translate
          THEN convert_query(calls[Len(calls)].query)
          ELSE calls[Len(calls)].query) \o query_base

\* nested_process_search has returned for program psexec of tools.json: two
\* fields, two calls, each of which returned a record the other did not,
\* with a base fragment that is not empty.
C9_Witness ==
  /\ pc = "write"
  /\ args.deffile = Some("tools.json")
  /\ idx.prog = 1
  /\ query_base # ""
  /\ Len(calls) = 2
  /\ calls[1].query = "(process_name:psexec.exe OR process_name:psexesvc.exe)"
  /\ calls[2].query = "(cmdline:-accepteula)"
  /\ Cardinality(calls[1].returned[1]) = 1
  /\ Cardinality(calls[2].returned[1]) = 1
  /\ calls[1].returned # calls[2].returned
  /\ Cardinality(result_set) = 2

====
